---- MODULE Spec2Model ----
(***************************************************************************)
(* Chord-to-word dataset generator (src/data/data_gen.py).                 *)
(*                                                                         *)
(* Characters are integer codes:  0 is '-', 1..26 are 'a'..'z', 27..52 are *)
(* 'A'..'Z', 53 is the apostrophe.  A string is a sequence of codes, so    *)
(* Python's code-point order on lowercase letters is the order of the      *)
(* integers.  A chord string such as "al-l" is <<1,12,0,12>>.              *)
(*                                                                         *)
(* The process is run twice (run = 1, then run = 2) over the same          *)
(* environment (the wordfreq list, the pyphen dictionary and the pseudo    *)
(* random generator), which is what the reproducibility statement is       *)
(* about.                                                                  *)
(***************************************************************************)
EXTENDS Integers, Sequences, FiniteSets, TLC

VARIABLES
    run,          \* which execution of the program this is (1 or 2)
    pc,           \* control point inside main / generate_variants
    rng,          \* state of the random module: [seed, pos]
    streams,      \* per seed: the variates the generator has produced so far
    top_n,        \* what top_n_list('en', ...) returns (environment)
    dic,          \* what dic.inserted(w) returns for each word (environment)
    vocab,        \* main: vocab
    wi,           \* main: index of the word of the for loop (1-based)
    rows,         \* main: rows
    skipped,      \* main: skipped
    examples,     \* generate_variants: examples
    seen_chords,  \* generate_variants: seen_chords
    syl_variants, \* generate_variants: syl_variants
    vi,           \* generate_variants: index of sylls in syl_variants[:3]
    di,           \* generate_variants: the "_" of range(2)
    si,           \* apply_noise_to_syllables: index of s in syllables
    s,            \* apply_noise_to_syllables: s
    noisy,        \* apply_noise_to_syllables: noisy
    calls,        \* history: every call of add() made for the current word
    rows1         \* history: rows at the end of the first execution

vars == <<run, pc, rng, streams, top_n, dic, vocab, wi, rows, skipped,
          examples, seen_chords, syl_variants, vi, di, si, s, noisy,
          calls, rows1>>

-----------------------------------------------------------------------------
(* Bounds of the model *)

\* longest token of the word list
MaxWordLen == 3
\* most tokens in the word list
MaxVocab == 2
\* most characters in the word list, all tokens together
MaxChars == 3
\* largest result of an index draw (random.choice, random.randrange)
MaxIndex == 1
\* most nonzero variates in one stream
MaxHits == 2
\* longest word the syllabification and encoding functions are called on
MaxFnLen == 5

\* letters the tokens are made of: 'a' (a vowel) and 'l' (a consonant)
Letters == {1, 12}

\* letters of the words the functions are called on: 'a', 'l', 'L'
FnLetters == {1, 12, 38}

\* the separator '-' of a chord string
DASH == 0

-----------------------------------------------------------------------------
(* Config *)

\* probabilities are in percent
NOISE_RATE == 40
KEY_SUB_PROB == 12
MISSING_LETTER_PROB == 10
EXTRA_LETTER_PROB == 8
CLEAN_VARIANTS_PER_WORD == 3
MIN_WORD_LENGTH == 1
MAX_WORD_LENGTH == 20
TARGET_VOCAB_SIZE == 20000
SEED == 42
NOISE_MIN_WORD_LENGTH == 3
DRAWS_PER_VARIANT == 2

KEYBOARD_ADJACENCY ==
  << <<19,17,23,26>>,      \* 'a': 'sqwz'
     <<22,7,8,14>>,        \* 'b': 'vghn'
     <<24,4,6,22>>,        \* 'c': 'xdfv'
     <<5,18,6,3,19>>,      \* 'd': 'erfcs'
     <<23,18,19,4,6>>,     \* 'e': 'wrsdf'
     <<18,20,7,4,3>>,      \* 'f': 'rtgdc'
     <<20,25,8,6,5>>,      \* 'g': 'tyhfe'
     <<25,21,7,14,10>>,    \* 'h': 'yugnj'
     <<21,15,10,11,12>>,   \* 'i': 'uojkl'
     <<21,9,8,14,11,13>>,  \* 'j': 'uihnkm'
     <<9,15,12,13,10>>,    \* 'k': 'iolmj'
     <<15,16,11>>,         \* 'l': 'opk'
     <<14,11,10>>,         \* 'm': 'nkj'
     <<2,8,10,13>>,        \* 'n': 'bhjm'
     <<9,16,12,11>>,       \* 'o': 'iplk'
     <<15,12>>,            \* 'p': 'ol'
     <<23,1>>,             \* 'q': 'wa'
     <<5,20,4,6>>,         \* 'r': 'etdf'
     <<23,5,4,26,1>>,      \* 's': 'wedza'
     <<18,25,6,7>>,        \* 't': 'ryfg'
     <<25,8,9,10>>,        \* 'u': 'yhij'
     <<3,6,7,2>>,          \* 'v': 'cfgb'
     <<17,1,19,5>>,        \* 'w': 'qase'
     <<26,19,4,3>>,        \* 'x': 'zsdc'
     <<20,21,14,8>>,       \* 'y': 'tunh'
     <<1,19,24>> >>        \* 'z': 'asx'

-----------------------------------------------------------------------------
(* Strings *)

Range(q) == {q[i] : i \in DOMAIN q}

Min(a, b) == IF a < b THEN a ELSE b

\* q[:n]
Take(q, n) == SubSeq(q, 1, Min(n, Len(q)))

\* q[n:]  (n is the 0-based index of the first element kept)
Drop(q, n) == SubSeq(q, n + 1, Len(q))

\* str.lower() on one character
LowerChar(c) == IF c \in 27..52 THEN c - 26 ELSE c

\* str.lower()
Lower(w) == [i \in 1..Len(w) |-> LowerChar(w[i])]

\* str.isalpha() and str.isascii()
IsAsciiAlpha(w) == Len(w) > 0 /\ \A i \in 1..Len(w) : w[i] \in 1..52

RECURSIVE Concat(_)
\* ''.join(parts)
Concat(parts) ==
    IF parts = <<>> THEN <<>> ELSE Head(parts) \o Concat(Tail(parts))

RECURSIVE Join(_)
\* '-'.join(parts)
Join(parts) ==
    IF parts = <<>> THEN <<>>
    ELSE IF Len(parts) = 1 THEN parts[1]
    ELSE parts[1] \o <<DASH>> \o Join(Tail(parts))

RECURSIVE SplitFrom(_, _, _)
SplitFrom(str, i, cur) ==
    IF i > Len(str) THEN <<cur>>
    ELSE IF str[i] = DASH THEN <<cur>> \o SplitFrom(str, i + 1, <<>>)
    ELSE SplitFrom(str, i + 1, Append(cur, str[i]))

\* str.split('-')
Split(str) == SplitFrom(str, 1, <<>>)

RECURSIVE Sorted(_)
\* sorted(S) of a set of characters
Sorted(S) ==
    IF S = {} THEN <<>>
    ELSE LET m == CHOOSE x \in S : \A y \in S : x <= y
         IN  <<m>> \o Sorted(S \ {m})

-----------------------------------------------------------------------------
(* Syllabification helpers *)

\* dic.inserted(w): the answer of the pyphen dictionary
dic_inserted(w) == dic[w]

syllabify(word) ==
    LET hyphenated == dic_inserted(Lower(word))
    IN  IF DASH \in Range(hyphenated) THEN Split(hyphenated)
        ELSE <<Lower(word)>>

RECURSIVE ShiftFromTail(_, _)
\* the slice after the pair starts one syllable early: syllables[i+1:]
ShiftFromTail(syllables, i) ==
    IF i >= Len(syllables) - 1 THEN <<>>
    ELSE LET left  == syllables[i + 1]
             right == syllables[i + 2]
             a == IF Len(left) > 1
                  THEN << Take(syllables, i)
                          \o << Take(left, Len(left) - 1),
                                <<left[Len(left)]>> \o right >>
                          \o Drop(syllables, i + 1) >>
                  ELSE <<>>
             b == IF Len(right) > 1
                  THEN << Take(syllables, i)
                          \o << left \o <<right[1]>>, Drop(right, 1) >>
                          \o Drop(syllables, i + 1) >>
                  ELSE <<>>
         IN  a \o b \o ShiftFromTail(syllables, i + 1)

RECURSIVE ShiftFromStale(_, _)
\* the second branch appends the `new` of the first branch once more
ShiftFromStale(syllables, i) ==
    IF i >= Len(syllables) - 1 THEN <<>>
    ELSE LET left  == syllables[i + 1]
             right == syllables[i + 2]
             a == IF Len(left) > 1
                  THEN << Take(syllables, i)
                          \o << Take(left, Len(left) - 1),
                                <<left[Len(left)]>> \o right >>
                          \o Drop(syllables, i + 2) >>
                  ELSE <<>>
             b == IF Len(right) > 1
                  THEN IF Len(left) > 1 THEN a
                       ELSE << Take(syllables, i)
                               \o << left \o <<right[1]>>, Drop(right, 1) >>
                               \o Drop(syllables, i + 2) >>
                  ELSE <<>>
         IN  a \o b \o ShiftFromStale(syllables, i + 1)

boundary_shift_variants_tail(syllables) == ShiftFromTail(syllables, 0)

boundary_shift_variants_stale(syllables) == ShiftFromStale(syllables, 0)

RECURSIVE ShiftFrom(_, _)
\* the body of the for loop of boundary_shift_variants, from index i (0-based)
ShiftFrom(syllables, i) ==
    IF i >= Len(syllables) - 1 THEN <<>>
    ELSE LET left  == syllables[i + 1]
             right == syllables[i + 2]
             a == IF Len(left) > 1
                  THEN << Take(syllables, i)
                          \o << Take(left, Len(left) - 1),
                                <<left[Len(left)]>> \o right >>
                          \o Drop(syllables, i + 2) >>
                  ELSE <<>>
             b == IF Len(right) > 1
                  THEN << Take(syllables, i)
                          \o << left \o <<right[1]>>, Drop(right, 1) >>
                          \o Drop(syllables, i + 2) >>
                  ELSE <<>>
         IN  a \o b \o ShiftFrom(syllables, i + 1)

boundary_shift_variants(syllables) == ShiftFrom(syllables, 0)

RECURSIVE AppendNew(_, _)
\* for shifted in q: if shifted not in variants: variants.append(shifted)
AppendNew(variants, q) ==
    IF q = <<>> THEN variants
    ELSE AppendNew(IF Head(q) \in Range(variants) THEN variants
                   ELSE Append(variants, Head(q)),
                   Tail(q))

all_syllabification_variants(word) ==
    LET base == syllabify(word)
    IN  AppendNew(<<base>>, boundary_shift_variants(base))

\* the whole word as one syllable
letter_by_letter_whole(word) == <<Lower(word)>>

letter_by_letter(word) == [i \in 1..Len(word) |-> <<LowerChar(word[i])>>]

-----------------------------------------------------------------------------
(* Chord encoding *)

RECURSIVE Unique(_, _)
Unique(q, seen) ==
    IF q = <<>> THEN <<>>
    ELSE IF Head(q) \in seen THEN Unique(Tail(q), seen)
         ELSE <<Head(q)>> \o Unique(Tail(q), seen \cup {Head(q)})

\* duplicates removed, but the letters left in the order they were typed
syllable_to_chord_unsorted(syllable) == Unique(Lower(syllable), {})

syllable_to_chord(syllable) == Sorted(Range(Lower(syllable)))

syllables_to_chords(syllables) ==
    Join([i \in 1..Len(syllables) |-> syllable_to_chord(syllables[i])])

-----------------------------------------------------------------------------
(* The random module *)

(* A stream is the sequence of the results of the calls into the random   *)
(* module.  The result of random.random() is 0 for a float that is not     *)
(* below the threshold it is compared with and 1 for one that is; the      *)
(* probabilities of Config are all strictly between 0 and 1, so both       *)
(* outcomes exist at every draw.  The result of an index draw              *)
(* (random.choice, random.randrange) is a number that is reduced modulo    *)
(* the size of the range.  The same seed gives the same stream.            *)

\* the processes' entropy seeds, and the one main() asks for
Seeds == {1, 2, SEED}

\* what the random module is seeded with when the process starts
os_urandom(r) == r

\* a seed() that leaves the generator on the entropy of the process
random_seed_unseeded(a) == [seed |-> os_urandom(run), pos |-> 0]

\* random.seed(a)
random_seed(a) == [seed |-> a, pos |-> 0]

\* variate k of the tape t
At(t, k) == IF k <= Len(t) THEN t[k] ELSE 0

\* random.random() < P, for the variate u and P in percent
Below(u, P) == IF P <= 0 THEN FALSE ELSE IF P >= 100 THEN TRUE ELSE u # 0

\* random.choice(seq), for the variate u
random_choice(seq, u) == seq[(u % Len(seq)) + 1]

\* random.randrange(n), for the variate u  (0-based)
random_randrange(n, u) == u % n

Hits(t) == Cardinality({i \in DOMAIN t : t[i] # 0})

RECURSIVE Tapes(_, _)
\* the tapes of g draws of random.random(), each one that is below its
\* threshold followed by at most one index draw, with at most h nonzero
\* variates in all
Tapes(g, h) ==
    IF g = 0 THEN {<<>>}
    ELSE {<<0>> \o t : t \in Tapes(g - 1, h)}
         \cup (IF h >= 1
               THEN {<<1>> \o t : t \in Tapes(g - 1, h - 1)}
                    \cup {<<1, 0>> \o t : t \in Tapes(g - 1, h - 1)}
               ELSE {})
         \cup (IF h >= 2
               THEN {<<1, j>> \o t : j \in 1..MaxIndex, t \in Tapes(g - 1, h - 2)}
               ELSE {})

\* the variates produced for the current seed and not yet consumed
Avail == Drop(streams[rng.seed], rng.pos)

\* what the generator may produce next, for a call that makes at most n
\* draws of random.random(): nothing new when the variates already
\* produced are enough for it
Extensions(n) ==
    IF Len(Avail) >= 2 * n THEN {<<>>}
    ELSE UNION {Tapes(g, MaxHits - Hits(streams[rng.seed])) : g \in 0..n}

\* a call that consumes `used` variates of Avail \o ext consumes all of ext
Consumes(ext, used) ==
    IF ext = <<>> THEN used <= Len(Avail) ELSE used = Len(Avail) + Len(ext)

Advance(ext, used) ==
    /\ streams' = [streams EXCEPT ![rng.seed] = @ \o ext]
    /\ rng' = [rng EXCEPT !.pos = @ + used]

-----------------------------------------------------------------------------
(* Noise functions (applied BEFORE chord encoding).  Each takes the tape   *)
(* of coming variates and returns its result with the number it consumed.  *)

RECURSIVE KeySubFrom(_, _, _, _)
\* for i, ch in enumerate(chars), from index i (1-based), k variates used
KeySubFrom(chars, i, t, k) ==
    IF i > Len(chars) THEN [out |-> chars, used |-> k, raised |-> FALSE]
    ELSE IF chars[i] \in DOMAIN KEYBOARD_ADJACENCY
         THEN IF Below(At(t, k + 1), KEY_SUB_PROB)
              THEN KeySubFrom(
                     [chars EXCEPT ![i] =
                        random_choice(KEYBOARD_ADJACENCY[chars[i]],
                                      At(t, k + 2))],
                     i + 1, t, k + 2)
              ELSE KeySubFrom(chars, i + 1, t, k + 1)
         ELSE KeySubFrom(chars, i + 1, t, k)

apply_key_substitution(syllable, t) == KeySubFrom(syllable, 1, t, 0)

\* without the guard on the length
apply_missing_letter_unguarded(syllable, t) ==
    IF Len(syllable) = 0
    THEN [out |-> syllable, used |-> 0, raised |-> FALSE]
    ELSE IF Below(At(t, 1), MISSING_LETTER_PROB)
         THEN LET idx == random_randrange(Len(syllable), At(t, 2))
              IN  [out |-> Take(syllable, idx) \o Drop(syllable, idx + 1),
                   used |-> 2, raised |-> FALSE]
         ELSE [out |-> syllable, used |-> 1, raised |-> FALSE]

apply_missing_letter(syllable, t) ==
    IF Len(syllable) <= 1
    THEN [out |-> syllable, used |-> 0, raised |-> FALSE]
    ELSE IF Below(At(t, 1), MISSING_LETTER_PROB)
         THEN LET idx == random_randrange(Len(syllable), At(t, 2))
              IN  [out |-> Take(syllable, idx) \o Drop(syllable, idx + 1),
                   used |-> 2, raised |-> FALSE]
         ELSE [out |-> syllable, used |-> 1, raised |-> FALSE]

\* the left slice is one character too long: syllable[:idx+1]
apply_extra_letter_slice(syllable, t) ==
    IF Below(At(t, 1), EXTRA_LETTER_PROB)
    THEN IF Len(syllable) = 0
         THEN [out |-> syllable, used |-> 1, raised |-> TRUE]
         ELSE LET idx == random_randrange(Len(syllable), At(t, 2))
              IN  [out |-> Take(syllable, idx + 1) \o <<syllable[idx + 1]>>
                            \o Drop(syllable, idx),
                   used |-> 2, raised |-> FALSE]
    ELSE [out |-> syllable, used |-> 1, raised |-> FALSE]

apply_extra_letter(syllable, t) ==
    IF Below(At(t, 1), EXTRA_LETTER_PROB)
    THEN IF Len(syllable) = 0
         \* random.randrange(0) raises ValueError
         THEN [out |-> syllable, used |-> 1, raised |-> TRUE]
         ELSE LET idx == random_randrange(Len(syllable), At(t, 2))
              IN  [out |-> Take(syllable, idx) \o <<syllable[idx + 1]>>
                            \o Drop(syllable, idx),
                   used |-> 2, raised |-> FALSE]
    ELSE [out |-> syllable, used |-> 1, raised |-> FALSE]

-----------------------------------------------------------------------------
(* Variant generation per word *)

\* an add() that does not look at seen_chords
add_unchecked(st, chords, label) ==
    [examples    |-> Append(st.examples, <<chords, label>>),
     seen_chords |-> st.seen_chords \cup {chords}]

\* the closure add(chords, label) over [examples, seen_chords]
add(st, chords, label) ==
    IF chords \notin st.seen_chords
    THEN [examples    |-> Append(st.examples, <<chords, label>>),
          seen_chords |-> st.seen_chords \cup {chords}]
    ELSE st

RECURSIVE AddAll(_, _, _)
\* for sylls in variants: add(syllables_to_chords(sylls), word)
AddAll(st, variants, label) ==
    IF variants = <<>> THEN st
    ELSE AddAll(add(st, syllables_to_chords(Head(variants)), label),
                Tail(variants), label)

\* the record of one call of add(): the step it was made in, the syllables
\* that were encoded, the segmentation they come from, and the chord string
Call(kind, encoded, from) ==
    [kind |-> kind, sylls |-> encoded, from |-> from,
     chords |-> syllables_to_chords(encoded)]

-----------------------------------------------------------------------------
(* Vocabulary loading *)

RECURSIVE Filter(_)
\* [w for w in words if w.isalpha() and w.isascii() and MIN <= len(w) <= MAX]
Filter(words) ==
    IF words = <<>> THEN <<>>
    ELSE (IF /\ IsAsciiAlpha(Head(words))
             /\ MIN_WORD_LENGTH <= Len(Head(words))
             /\ Len(Head(words)) <= MAX_WORD_LENGTH
          THEN <<Head(words)>> ELSE <<>>) \o Filter(Tail(words))

load_vocabulary(words) == Take(Filter(words), TARGET_VOCAB_SIZE)

-----------------------------------------------------------------------------
(* The environment: the word list and the hyphenation dictionary *)

Words == UNION {[1..k -> Letters] : k \in 1..MaxWordLen}

\* a token of the list that is not a word: "l'l"
Tokens == Words \cup {<<12, 53, 12>>}

RECURSIVE TotalLen(_)
TotalLen(q) == IF q = <<>> THEN 0 ELSE Len(Head(q)) + TotalLen(Tail(q))

\* the lists top_n_list can return: distinct tokens
TokenLists ==
    {q \in UNION {[1..k -> Tokens] : k \in 1..MaxVocab} :
        /\ \A i, j \in DOMAIN q : i # j => q[i] # q[j]
        /\ TotalLen(q) <= MaxChars}

RECURSIVE InsertedFrom(_, _, _)
\* w with a '-' after every position of C, from position i
InsertedFrom(w, i, C) ==
    IF i > Len(w) THEN <<>>
    ELSE <<w[i]>> \o (IF i \in C THEN <<DASH>> ELSE <<>>)
         \o InsertedFrom(w, i + 1, C)

\* what dic.inserted(w) can be: w with '-' at some inner positions
Hyphenations(w) == {InsertedFrom(w, 1, C) : C \in SUBSET (1..(Len(w) - 1))}

\* the dictionaries: one hyphenation for each word of the list
Dictionaries(q) ==
    LET ws == {Lower(w) : w \in {x \in Range(q) : IsAsciiAlpha(x)}}
    IN  {f \in [ws -> UNION {Hyphenations(w) : w \in ws}] :
            \A w \in ws : f[w] \in Hyphenations(w)}

-----------------------------------------------------------------------------
(* main() and generate_variants(), step by step *)

\* the word of the for loop of main
word == vocab[wi]

\* syl_variants[:CLEAN_VARIANTS_PER_WORD]
CleanVariantsOf(variants) == Take(variants, CLEAN_VARIANTS_PER_WORD)

\* the variant the noise loop is at
sylls == syl_variants[vi]

Init ==
    /\ run = 1
    /\ pc = "start"
    /\ rng = [seed |-> os_urandom(1), pos |-> 0]
    /\ streams = [sd \in Seeds |-> <<>>]
    /\ top_n \in TokenLists
    /\ dic \in Dictionaries(top_n)
    /\ vocab = <<>>
    /\ wi = 0
    /\ rows = <<>>
    /\ skipped = 0
    /\ examples = <<>>
    /\ seen_chords = {}
    /\ syl_variants = <<>>
    /\ vi = 0
    /\ di = 0
    /\ si = 0
    /\ s = <<>>
    /\ noisy = <<>>
    /\ calls = <<>>
    /\ rows1 = <<>>

\* random.seed(42)
Seed ==
    /\ pc = "start"
    /\ rng' = random_seed(SEED)
    /\ pc' = "load"
    /\ UNCHANGED <<run, streams, top_n, dic, vocab, wi, rows, skipped,
                   examples, seen_chords, syl_variants, vi, di, si, s, noisy,
                   calls, rows1>>

\* vocab = load_vocabulary(); rows = []; skipped = 0
LoadVocabulary ==
    /\ pc = "load"
    /\ vocab' = load_vocabulary(top_n)
    /\ rows' = <<>>
    /\ skipped' = 0
    /\ wi' = 0
    /\ pc' = "loop"
    /\ UNCHANGED <<run, rng, streams, top_n, dic, examples, seen_chords,
                   syl_variants, vi, di, si, s, noisy, calls, rows1>>

\* for word in vocab: generate_variants(word) is entered
NextWord ==
    /\ pc = "loop"
    /\ wi < Len(vocab)
    /\ wi' = wi + 1
    /\ examples' = <<>>
    /\ seen_chords' = {}
    /\ calls' = <<>>
    /\ syl_variants' = <<>>
    /\ vi' = 0
    /\ di' = 0
    /\ si' = 0
    /\ s' = <<>>
    /\ noisy' = <<>>
    /\ pc' = "letter"
    /\ UNCHANGED <<run, rng, streams, top_n, dic, vocab, rows, skipped, rows1>>

\* 1. Letter-by-letter (always clean, always included)
LetterByLetter ==
    /\ pc = "letter"
    /\ LET st == add([examples |-> examples, seen_chords |-> seen_chords],
                     syllables_to_chords(letter_by_letter(word)), word)
       IN  /\ examples' = st.examples
           /\ seen_chords' = st.seen_chords
    /\ calls' = Append(calls, Call("letter", letter_by_letter(word),
                                letter_by_letter(word)))
    /\ pc' = "clean"
    /\ UNCHANGED <<run, rng, streams, top_n, dic, vocab, wi, rows, skipped,
                   syl_variants, vi, di, si, s, noisy, rows1>>

\* 2. Clean syllabification variants (up to CLEAN_VARIANTS_PER_WORD)
CleanVariants ==
    /\ pc = "clean"
    /\ LET variants == all_syllabification_variants(word)
           kept == CleanVariantsOf(variants)
           st == AddAll([examples |-> examples, seen_chords |-> seen_chords],
                        kept, word)
       IN  /\ syl_variants' = variants
           /\ examples' = st.examples
           /\ seen_chords' = st.seen_chords
           /\ calls' = calls \o [i \in 1..Len(kept) |-> Call("clean", kept[i], kept[i])]
    /\ pc' = "guard"
    /\ UNCHANGED <<run, rng, streams, top_n, dic, vocab, wi, rows, skipped,
                   vi, di, si, s, noisy, rows1>>

\* if len(word) < 3: return examples
SkipNoise ==
    /\ pc = "guard"
    /\ Len(word) < NOISE_MIN_WORD_LENGTH
    /\ pc' = "return"
    /\ UNCHANGED <<run, rng, streams, top_n, dic, vocab, wi, rows, skipped,
                   examples, seen_chords, syl_variants, vi, di, si, s, noisy,
                   calls, rows1>>

\* 3. the noise loops are entered
BeginNoise ==
    /\ pc = "guard"
    /\ Len(word) >= NOISE_MIN_WORD_LENGTH
    /\ vi' = 1
    /\ di' = 0
    /\ pc' = "attempt"
    /\ UNCHANGED <<run, rng, streams, top_n, dic, vocab, wi, rows, skipped,
                   examples, seen_chords, syl_variants, si, s, noisy,
                   calls, rows1>>

\* the next iteration of "for sylls in ...: for _ in range(2)", or the return
NextAttempt ==
    IF di + 1 < DRAWS_PER_VARIANT
    THEN vi' = vi /\ di' = di + 1 /\ pc' = "attempt"
    ELSE IF vi < Len(CleanVariantsOf(syl_variants))
         THEN vi' = vi + 1 /\ di' = 0 /\ pc' = "attempt"
         ELSE vi' = vi /\ di' = di /\ pc' = "return"

\* if random.random() < NOISE_RATE: apply_noise_to_syllables is entered
Attempt ==
    /\ pc = "attempt"
    /\ \E ext \in Extensions(1) :
         /\ Consumes(ext, 1)
         /\ Advance(ext, 1)
         /\ IF Below(At(Avail \o ext, 1), NOISE_RATE)
            THEN /\ noisy' = <<>>
                 /\ IF Len(sylls) > 0
                    THEN si' = 1 /\ s' = sylls[1] /\ pc' = "key_sub"
                    ELSE si' = 0 /\ s' = <<>> /\ pc' = "add_noisy"
                 /\ UNCHANGED <<vi, di>>
            ELSE /\ NextAttempt
                 /\ UNCHANGED <<si, s, noisy>>
    /\ UNCHANGED <<run, top_n, dic, vocab, wi, rows, skipped, examples,
                   seen_chords, syl_variants, calls, rows1>>

\* s = apply_key_substitution(s)
KeySubstitution ==
    /\ pc = "key_sub"
    /\ \E ext \in Extensions(Len(s)) :
         LET r == apply_key_substitution(s, Avail \o ext)
         IN  /\ Consumes(ext, r.used)
             /\ Advance(ext, r.used)
             /\ s' = r.out
    /\ pc' = "missing"
    /\ UNCHANGED <<run, top_n, dic, vocab, wi, rows, skipped, examples,
                   seen_chords, syl_variants, vi, di, si, noisy, calls, rows1>>

\* s = apply_missing_letter(s)
MissingLetter ==
    /\ pc = "missing"
    /\ \E ext \in Extensions(1) :
         LET r == apply_missing_letter(s, Avail \o ext)
         IN  /\ Consumes(ext, r.used)
             /\ Advance(ext, r.used)
             /\ s' = r.out
    /\ pc' = "extra"
    /\ UNCHANGED <<run, top_n, dic, vocab, wi, rows, skipped, examples,
                   seen_chords, syl_variants, vi, di, si, noisy, calls, rows1>>

\* s = apply_extra_letter(s); noisy.append(s); and the next syllable of the
\* for loop.  An exception leaves generate_variants and is caught in main:
\* skipped += 1
ExtraLetter ==
    /\ pc = "extra"
    /\ \E ext \in Extensions(1) :
         LET r == apply_extra_letter(s, Avail \o ext)
         IN  /\ Consumes(ext, r.used)
             /\ Advance(ext, r.used)
             /\ IF r.raised
                THEN /\ skipped' = skipped + 1
                     /\ pc' = "loop"
                     /\ UNCHANGED <<s, si, noisy>>
                ELSE /\ skipped' = skipped
                     /\ noisy' = Append(noisy, r.out)
                     /\ IF si < Len(sylls)
                        THEN si' = si + 1 /\ s' = sylls[si + 1]
                             /\ pc' = "key_sub"
                        ELSE si' = si /\ s' = r.out /\ pc' = "add_noisy"
    /\ UNCHANGED <<run, top_n, dic, vocab, wi, rows, examples,
                   seen_chords, syl_variants, vi, di, calls, rows1>>

\* add(syllables_to_chords(noisy_sylls), word)
AddNoisy ==
    /\ pc = "add_noisy"
    /\ LET st == add([examples |-> examples, seen_chords |-> seen_chords],
                     syllables_to_chords(noisy), word)
       IN  /\ examples' = st.examples
           /\ seen_chords' = st.seen_chords
    /\ calls' = Append(calls, Call("noisy", noisy, sylls))
    /\ NextAttempt
    /\ UNCHANGED <<run, rng, streams, top_n, dic, vocab, wi, rows, skipped,
                   syl_variants, si, s, noisy, rows1>>

\* return examples; rows.extend(variants)
Return ==
    /\ pc = "return"
    /\ rows' = rows \o examples
    /\ pc' = "loop"
    /\ UNCHANGED <<run, rng, streams, top_n, dic, vocab, wi, skipped,
                   examples, seen_chords, syl_variants, vi, di, si, s, noisy,
                   calls, rows1>>

\* the for loop of main is over
LoopEnd ==
    /\ pc = "loop"
    /\ wi >= Len(vocab)
    /\ pc' = "done"
    /\ UNCHANGED <<run, rng, streams, top_n, dic, vocab, wi, rows, skipped,
                   examples, seen_chords, syl_variants, vi, di, si, s, noisy,
                   calls, rows1>>

\* the program is started a second time in the same environment
Rerun ==
    /\ pc = "done"
    /\ run = 1
    /\ run' = 2
    /\ rows1' = rows
    /\ pc' = "start"
    /\ rng' = [seed |-> os_urandom(2), pos |-> 0]
    /\ vocab' = <<>>
    /\ wi' = 0
    /\ rows' = <<>>
    /\ skipped' = 0
    /\ examples' = <<>>
    /\ seen_chords' = {}
    /\ syl_variants' = <<>>
    /\ vi' = 0
    /\ di' = 0
    /\ si' = 0
    /\ s' = <<>>
    /\ noisy' = <<>>
    /\ calls' = <<>>
    /\ UNCHANGED <<streams, top_n, dic>>

Next ==
    \/ Seed
    \/ LoadVocabulary
    \/ NextWord
    \/ LetterByLetter
    \/ CleanVariants
    \/ SkipNoise
    \/ BeginNoise
    \/ Attempt
    \/ KeySubstitution
    \/ MissingLetter
    \/ ExtraLetter
    \/ AddNoisy
    \/ Return
    \/ LoopEnd
    \/ Rerun

Spec == Init /\ [][Next]_vars

-----------------------------------------------------------------------------
(* The syllabification and encoding functions called on their own: a word, *)
(* a dictionary that hyphenates it in some way, then                       *)
(* all_syllabification_variants(word) and syllables_to_chords of each      *)
(* variant.                                                                *)

FnWords == UNION {[1..k -> FnLetters] : k \in 1..MaxFnLen}

FnInit ==
    /\ run = 1
    /\ pc = "fn_call"
    /\ rng = [seed |-> os_urandom(1), pos |-> 0]
    /\ streams = [sd \in Seeds |-> <<>>]
    /\ top_n \in {<<w>> : w \in FnWords}
    /\ dic \in Dictionaries(top_n)
    /\ vocab = top_n
    /\ wi = 1
    /\ rows = <<>>
    /\ skipped = 0
    /\ examples = <<>>
    /\ seen_chords = {}
    /\ syl_variants = <<>>
    /\ vi = 0
    /\ di = 0
    /\ si = 0
    /\ s = <<>>
    /\ noisy = <<>>
    /\ calls = <<>>
    /\ rows1 = <<>>

\* syl_variants = all_syllabification_variants(word)
FnVariants ==
    /\ pc = "fn_call"
    /\ syl_variants' = all_syllabification_variants(word)
    /\ pc' = "fn_variants"
    /\ UNCHANGED <<run, rng, streams, top_n, dic, vocab, wi, rows, skipped,
                   examples, seen_chords, vi, di, si, s, noisy, calls, rows1>>

\* rows = [(syllables_to_chords(sylls), word) for sylls in syl_variants]
FnEncode ==
    /\ pc = "fn_variants"
    /\ rows' = [i \in 1..Len(syl_variants) |->
                  <<syllables_to_chords(syl_variants[i]), word>>]
    /\ pc' = "fn_encoded"
    /\ UNCHANGED <<run, rng, streams, top_n, dic, vocab, wi, skipped,
                   examples, seen_chords, syl_variants, vi, di, si, s, noisy,
                   calls, rows1>>

FnNext ==
    \/ FnVariants
    \/ FnEncode

SpecFn == FnInit /\ [][FnNext]_vars

-----------------------------------------------------------------------------
(* Notions of the specification document that the properties refer to *)

\* the least number of non-separator characters of a ChordSequence
minChordChars == 2

\* the legitimate single-character words: "a", "i"
singleLetterExceptions == {<<1>>, <<9>>}

\* a, e, i, o, u
Vowels == {1, 5, 9, 15, 21}

RECURSIVE SelectNot(_, _)
SelectNot(q, S) ==
    IF q = <<>> THEN <<>>
    ELSE (IF Head(q) \in S THEN <<>> ELSE <<Head(q)>>) \o SelectNot(Tail(q), S)

\* the consonant-only encoder of the document
encodeConsonants(segment, isSoleSyllable) ==
    LET low  == Lower(segment)
        cons == SelectNot(low, Vowels)
    IN  IF Len(low) = 1 /\ low[1] \in Vowels /\ isSoleSyllable THEN low
        ELSE IF cons = <<>> /\ low # <<>> /\ ~isSoleSyllable THEN <<low[1]>>
        ELSE Sorted(Range(cons))

consonantChords(syllables) ==
    Join([i \in 1..Len(syllables) |->
            encodeConsonants(syllables[i], Len(syllables) = 1)])

-----------------------------------------------------------------------------
(* Properties *)

\* the chord strings of a list of (chords, label) pairs
ChordsOf(ex) == {ex[i][1] : i \in DOMAIN ex}

\* the number of characters of a chord string that are not '-'
NonSeparatorCount(chords) ==
    Cardinality({i \in DOMAIN chords : chords[i] # DASH})

\* generate_variants(word) is at its return statement
Returning == pc = "return"

\* generate_variants(word) has computed syl_variants and has not returned
AfterClean ==
    pc \in {"guard", "attempt", "key_sub", "missing", "extra", "add_noisy",
            "return", "fn_variants", "fn_encoded"}

\* apply_noise_to_syllables is inside its for loop
InNoise == pc \in {"key_sub", "missing", "extra"}

\* C1: the list generate_variants builds and returns never holds the same
\* ChordSequence string twice, whatever the word and the random draws
NoDuplicateChords ==
    \A i, j \in DOMAIN examples :
        i # j => examples[i][1] # examples[j][1]

\* a noisy draw produced a chord string that add() had been given before
DuplicateOffered ==
    /\ Returning
    /\ \E i, j \in DOMAIN calls :
         i < j /\ calls[j].kind = "noisy" /\ calls[i].chords = calls[j].chords

\* C2: every ChordSequence generate_variants returns has at least
\* minChordChars characters other than '-', unless the word is one of the
\* single-letter exceptions
ValidityFilterApplied ==
    Returning =>
        \A i \in DOMAIN examples :
            \/ NonSeparatorCount(examples[i][1]) >= minChordChars
            \/ Lower(word) \in singleLetterExceptions

\* C3: a second execution over the same word list and dictionary, seeded
\* like the first, ends with the same ordered rows, having consumed exactly
\* the variates the first one consumed; no variate is ever drawn from
\* another stream than the one of the seed
Determinism ==
    /\ \A sd \in Seeds \ {SEED} : streams[sd] = <<>>
    /\ rng.pos <= Len(streams[rng.seed])
    /\ (run = 2 /\ pc = "done") =>
          /\ rows = rows1
          /\ rng.pos = Len(streams[rng.seed])

\* the second execution is over and noise went into its rows
SecondRunDone ==
    /\ run = 2
    /\ pc = "done"
    /\ Hits(streams[SEED]) >= 2
    /\ Len(rows) >= 3

\* the syllables the encoder is applied to
EncodedSyllables ==
    UNION {Range(syl_variants[i]) : i \in DOMAIN syl_variants}
    \cup UNION {Range(calls[i].sylls) : i \in DOMAIN calls}

\* C4: the chord of a non-empty syllable is strictly ascending (so without
\* repeats), has exactly the characters of the syllable, and encoding the
\* chord again gives the chord
ChordEncoderCanonical ==
    \A x \in EncodedSyllables :
        x # <<>> =>
            LET c == syllable_to_chord(x)
            IN  /\ \A i \in 1..(Len(c) - 1) : c[i] < c[i + 1]
                /\ Range(c) = Range(x)
                /\ syllable_to_chord(c) = c

\* a syllable with a repeated letter, not in sorted order, was encoded
RepeatedLetterEncoded ==
    /\ pc = "fn_encoded"
    /\ \E x \in EncodedSyllables :
         /\ Len(x) > Cardinality(Range(x)) + 1
         /\ \E k \in 1..(Len(x) - 1) : x[k] > x[k + 1]

\* C5: every alternative of boundary_shift_variants, for a sequence of two
\* or more syllables, concatenates to the letters of the original in order,
\* has as many syllables, and differs only in two adjacent syllables
ShiftPreservesLetters ==
    AfterClean =>
        LET base == syllabify(word)
            alts == boundary_shift_variants(base)
        IN  Len(base) >= 2 =>
              \A k \in DOMAIN alts :
                  /\ Concat(alts[k]) = Concat(base)
                  /\ Concat(alts[k]) = Lower(word)
                  /\ Len(alts[k]) = Len(base)
                  /\ \E i \in 1..(Len(base) - 1) :
                       \A j \in DOMAIN base :
                           j \notin {i, i + 1} => alts[k][j] = base[j]

\* a word of three syllables or more has a shifted alternative
ShiftInLongSequence ==
    /\ AfterClean
    /\ Len(syllabify(word)) >= 3
    /\ Len(syl_variants) >= 2

\* C6: one pass of the substitution keeps the length of the segment, one
\* pass of the deletion removes no more characters than the segment has and
\* adds none, one pass of the insertion at most doubles the length
NoiseLengthBounds ==
    [][ /\ pc = "key_sub" => Len(s') = Len(s)
        /\ pc = "missing" => /\ Len(s') <= Len(s)
                             /\ Len(s) - Len(s') <= Len(s)
        /\ (pc = "extra" /\ noisy' # noisy) =>
              /\ Len(noisy'[Len(noisy')]) <= 2 * Len(s)
              /\ Len(noisy'[Len(noisy')]) >= Len(s) ]_vars

\* the insertion has lengthened a syllable
LetterInserted ==
    /\ pc \in {"key_sub", "add_noisy"}
    /\ noisy # <<>>
    /\ Len(noisy[Len(noisy)]) = Len(sylls[Len(noisy)]) + 1

\* an entry of examples that only a noisy draw has produced
IsNoisyEntry(i) ==
    \A k \in DOMAIN calls :
        calls[k].chords = examples[i][1] => calls[k].kind = "noisy"

\* C7: what generate_variants returns contains the letter-by-letter
\* ChordSequence (one chord per character) and the golden ChordSequence
\* (the encoder over the canonical syllabification), and both come before
\* every noisy variant of the list
StructuralVariantsIncluded ==
    Returning =>
        LET letters == Join([i \in 1..Len(word) |-> <<LowerChar(word[i])>>])
            golden  == syllables_to_chords(syllabify(word))
        IN  /\ letters \in ChordsOf(examples)
            /\ golden \in ChordsOf(examples)
            /\ \A i, j \in DOMAIN examples :
                 (IsNoisyEntry(i) /\ examples[j][1] \in {letters, golden})
                     => j < i
            /\ \A i \in DOMAIN examples : examples[i][2] = word

\* a word of several letters returns with a noisy variant in its list
NoisyVariantReturned ==
    /\ Returning
    /\ \E i \in DOMAIN examples : IsNoisyEntry(i)

\* C8: the variant set of every word contains the consonant ChordSequence
\* (vowels removed from each syllable before sorting and deduplicating)
ConsonantChordIncluded ==
    Returning => consonantChords(syllabify(word)) \in ChordsOf(examples)

\* C9: no alternative of boundary_shift_variants equals the original, no two
\* are equal, one syllable gives no alternative, and then
\* all_syllabification_variants is the canonical syllabification alone
ShiftAlternativesDistinct ==
    AfterClean =>
        LET base == syllabify(word)
            alts == boundary_shift_variants(base)
        IN  /\ \A k \in DOMAIN alts : alts[k] # base
            /\ \A k, m \in DOMAIN alts : k # m => alts[k] # alts[m]
            /\ Len(base) = 1 => alts = <<>> /\ syl_variants = <<base>>
            /\ syl_variants = <<base>> \o alts

\* a boundary with a long syllable on both sides: two alternatives
TwoAlternatives ==
    /\ AfterClean
    /\ Len(boundary_shift_variants(syllabify(word))) >= 2

\* C10: no syllable is ever empty, neither in a segmentation nor during or
\* after the noise pass, and every chord string generate_variants returns
\* has one non-empty chord per syllable of the segmentation it was derived
\* from, in the same order
OneChordPerSyllable ==
    /\ \A i \in DOMAIN syl_variants :
         \A j \in DOMAIN syl_variants[i] : syl_variants[i][j] # <<>>
    /\ InNoise => s # <<>>
    /\ \A j \in DOMAIN noisy : noisy[j] # <<>>
    /\ Returning =>
         /\ \A i \in DOMAIN calls :
              LET segs == Split(calls[i].chords)
              IN  /\ Len(segs) = Len(calls[i].from)
                  /\ Len(segs) = Len(calls[i].sylls)
                  /\ \A j \in DOMAIN segs :
                       /\ segs[j] # <<>>
                       /\ segs[j] = syllable_to_chord(calls[i].sylls[j])
         /\ ChordsOf(examples) = {calls[i].chords : i \in DOMAIN calls}

\* the deletion shortened a syllable of a word of several syllables
SyllableShortened ==
    /\ Returning
    /\ \E i \in DOMAIN calls :
         /\ calls[i].kind = "noisy"
         /\ Len(calls[i].from) >= 2
         /\ \E j \in DOMAIN calls[i].from :
              Len(calls[i].sylls[j]) < Len(calls[i].from[j])

====
